---- MODULE Spec2Model ----
(***************************************************************************)
(* Model of providers/posflag: the koanf provider that reads a pflag       *)
(* FlagSet and returns a nested configuration map.                         *)
(*                                                                         *)
(* Strings are sequences of character codes, a machine integer is its      *)
(* two's complement byte sequence (little endian), a Go value is a record  *)
(* [kind, v, m]: kind is the dynamic type, v the payload (a sequence of    *)
(* sequences of numbers) and m the entries when the value is a map.        *)
(***************************************************************************)
EXTENDS Integers, Sequences, FiniteSets, TLC

VARIABLES flagset, p, ret, first, hookLog, storeLog, cbEvents

vars == <<flagset, p, ret, first, hookLog, storeLog, cbEvents>>

\* ------------------------------------------------------------ strings

Alphabet == <<"-", ".", "0", "1", "2", "3", "4", "5", "6", "7", "8", "9",
              "a", "b", "k", "s", "x">>

Code(ch) == CHOOSE i \in 1..Len(Alphabet) : Alphabet[i] = ch

S(t) == [i \in 1..Len(t) |-> Code(t[i])]

Digit(d) == Code("0") + d

RECURSIVE Digits(_)
Digits(n) == IF n < 10 THEN <<Digit(n)>> ELSE Digits(n \div 10) \o <<Digit(n % 10)>>

HasPrefixAt(s, sep, i) ==
    /\ i + Len(sep) - 1 <= Len(s)
    /\ \A j \in 1..Len(sep) : s[i + j - 1] = sep[j]

\* strings.Split(s, sep) for a non-empty sep
RECURSIVE SplitFrom(_, _, _, _)
SplitFrom(s, sep, i, cur) ==
    IF i > Len(s) THEN <<cur>>
    ELSE IF HasPrefixAt(s, sep, i)
         THEN <<cur>> \o SplitFrom(s, sep, i + Len(sep), <<>>)
         ELSE SplitFrom(s, sep, i + 1, Append(cur, s[i]))

Split(s, sep) == SplitFrom(s, sep, 1, <<>>)

\* ------------------------------------------------------------ values

Leaf(kind, payload) == [kind |-> kind, v |-> payload, m |-> <<>>]

MapOf(entries) == [kind |-> "map", v |-> <<>>, m |-> entries]

EmptyMap == MapOf(<<>>)

NilValue == [kind |-> "nil", v |-> <<>>, m |-> <<>>]

\* a widening that fills with zero bytes: the value taken as unsigned
Int64OfUnsigned(bytes) == bytes \o [k \in 1..(8 - Len(bytes)) |-> 0]

\* int64(i): a signed integer of any width widened to 8 bytes
Int64Of(bytes) ==
    bytes \o [k \in 1..(8 - Len(bytes)) |->
                 IF bytes[Len(bytes)] >= 128 THEN 255 ELSE 0]

\* strconv.FormatFloat(f, 'g', -1, 64) of a float given in tenths
FormatFloat(t) ==
    LET a == IF t < 0 THEN 0 - t ELSE t
    IN  (IF t < 0 THEN <<Code("-")>> ELSE <<>>)
        \o Digits(a \div 10)
        \o (IF a % 10 = 0 THEN <<>> ELSE <<Code("."), Digit(a % 10)>>)

\* ------------------------------------------------------------ flag registry

IntTags == {"int", "int8", "int16", "int32", "int64"}

\* the tags pflag gives its built-in values, and two tags of user-defined values
BuiltinTags == IntTags \cup {"float32", "float64", "bool", "string",
                             "stringSlice", "intSlice"}

CustomTags == {"custom", "float"}

TypeTags == BuiltinTags \cup CustomTags

\* byte width of each signed integer type (int is the platform's 64 bit int)
Width(tag) ==
    CASE tag = "int8" -> 1
      [] tag = "int16" -> 2
      [] tag = "int32" -> 4
      [] OTHER -> 8

Bytes(low, high, n) == [i \in 1..n |-> IF i = n THEN high ELSE low]

\* the values a flag of each type takes: the extremes of every integer width
IntSamples(tag) ==
    { <<Bytes(0, 128, Width(tag))>>, <<Bytes(255, 127, Width(tag))>>,
      <<Bytes(255, 255, Width(tag))>>, <<Bytes(1, 0, Width(tag))>> }

TypeSamples(tag) ==
    CASE tag \in IntTags -> IntSamples(tag)
      [] tag \in {"float32", "float64"} -> { <<<<15>>>>, <<<<0 - 25>>>>, <<<<0>>>> }
      [] tag = "bool" -> { <<<<0>>>>, <<<<1>>>> }
      [] tag = "string" -> { <<S(<<"a", "b">>)>>, <<<<>>>> }
      [] tag = "stringSlice" -> { <<S(<<"a">>), S(<<"b">>)>>, <<>> }
      [] tag = "intSlice" -> { <<Bytes(1, 0, 8), Bytes(255, 255, 8)>>, <<>> }
      [] tag = "float" -> { <<S(<<"1", ".", "5">>)>> }
      [] OTHER -> { <<S(<<"1", "s">>)>>, <<S(<<"x">>)>> }

Flag(name, tag, value, changed) ==
    [Name |-> name, Type |-> tag, Value |-> value, Changed |-> changed]

\* FlagSet.Lookup
Lookup(fs, name) == fs[CHOOSE i \in 1..Len(fs) : fs[i].Name = name]

\* FlagSet.getFlagType: the value when the flag has the asked type, else the
\* zero value and an error, which the caller drops
GetFlagType(fs, name, ftype, zero) ==
    IF /\ \E i \in 1..Len(fs) : fs[i].Name = name
       /\ Lookup(fs, name).Type = ftype
    THEN Lookup(fs, name).Value
    ELSE zero

GetInt(fs, name) == GetFlagType(fs, name, "int", <<Bytes(0, 0, 8)>>)[1]
GetInt8(fs, name) == GetFlagType(fs, name, "int8", <<Bytes(0, 0, 1)>>)[1]
GetInt16(fs, name) == GetFlagType(fs, name, "int16", <<Bytes(0, 0, 2)>>)[1]
GetInt32(fs, name) == GetFlagType(fs, name, "int32", <<Bytes(0, 0, 4)>>)[1]
GetInt64(fs, name) == GetFlagType(fs, name, "int64", <<Bytes(0, 0, 8)>>)[1]
GetFloat32(fs, name) == GetFlagType(fs, name, "float32", <<<<0>>>>)
GetFloat64(fs, name) == GetFlagType(fs, name, "float64", <<<<0>>>>)
GetBool(fs, name) == GetFlagType(fs, name, "bool", <<<<0>>>>)
GetStringSlice(fs, name) == GetFlagType(fs, name, "stringSlice", <<>>)
GetIntSlice(fs, name) == GetFlagType(fs, name, "intSlice", <<>>)

\* f.Value.String()
ValueString(f) ==
    CASE f.Type = "float64" -> FormatFloat(f.Value[1][1])
      [] OTHER -> f.Value[1]

\* ------------------------------------------------------------ configuration

K_a == S(<<"a">>)
K_ab == S(<<"a", ".", "b">>)
K_b == S(<<"b">>)

NoKoanf == [set |-> FALSE, keys |-> {}]

Koanf(keys) == [set |-> TRUE, keys |-> keys]

\* ko.Exists(key)
Exists(ko, key) == key \in ko.keys

\* Provider(f, delim, ko)
Provider(delim, ko) ==
    [delim |-> delim, ko |-> ko, valueCallback |-> "nil", keyNameCallback |-> "nil"]

\* ProviderWithValue(f, delim, ko, cb)
ProviderWithValue(delim, ko, cb) ==
    [delim |-> delim, ko |-> ko, valueCallback |-> cb, keyNameCallback |-> "nil"]

\* the options
ParentKoanf(ko, pp) == [pp EXCEPT !.ko = ko]
ValueCallback(cb, pp) == [pp EXCEPT !.valueCallback = cb]
RenameCallback(cb, pp) == [pp EXCEPT !.keyNameCallback = cb]

\* ProviderWithOptions(f, delim, options...): every option is given or left out
ProviderWithOptions(delim, ko, vcb, kcb) ==
    LET p0 == [delim |-> delim, ko |-> NoKoanf, valueCallback |-> "nil",
               keyNameCallback |-> "nil"]
        p1 == IF ko.set THEN ParentKoanf(ko, p0) ELSE p0
        p2 == IF vcb # "nil" THEN ValueCallback(vcb, p1) ELSE p1
    IN  IF kcb # "nil" THEN RenameCallback(kcb, p2) ELSE p2

\* the callbacks a caller installs: valueCallback(key, value) -> (key, value)
ValueCallbacks == {"CbDrop", "CbSlice", "CbMove", "CbMap"}

ApplyValueCallback(cb, key, value) ==
    CASE cb = "CbDrop" -> [key |-> <<>>, value |-> NilValue]
      [] cb = "CbSlice" -> [key |-> key, value |-> Leaf("[]string", <<value>>)]
      [] cb = "CbMove" -> [key |-> K_a, value |-> Leaf("string", <<value>>)]
      [] OTHER -> [key |-> key,
                   value |-> MapOf(S(<<"x">>) :> Leaf("string", <<value>>))]

\* keyNameCallback(flag) -> key
KeyNameCallbacks == {"RenPrefix", "RenConst"}

ApplyKeyNameCallback(cb, f) ==
    CASE cb = "RenPrefix" -> S(<<"b", ".">>) \o f.Name
      [] OTHER -> K_b

\* ------------------------------------------------------------ Read

\* the rename hook left out: the raw name always
KeyNameRaw(pp, f) == f.Name

\* lines 72-75: the key of a flag before the value callback
KeyName(pp, f) ==
    IF pp.keyNameCallback # "nil"
    THEN ApplyKeyNameCallback(pp.keyNameCallback, f)
    ELSE f.Name

\* the oracle's answer inverted: a default is left out when the key is missing
SkippedInverted(pp, f, keyName) ==
    /\ ~f.Changed
    /\ IF pp.ko.set THEN ~Exists(pp.ko, keyName) ELSE TRUE

\* the oracle asked before the changed marker: a changed flag is left out too
SkippedOracleFirst(pp, f, keyName) ==
    IF pp.ko.set THEN Exists(pp.ko, keyName) ELSE ~f.Changed

\* lines 78-86: the flag is left out (the closure returns early)
Skipped(pp, f, keyName) ==
    /\ ~f.Changed
    /\ IF pp.ko.set THEN Exists(pp.ko, keyName) ELSE TRUE

\* the case labels of the switch on f.Value.Type()
SwitchTags == {"int", "int8", "int16", "int32", "int64", "float32", "float",
               "bool", "stringSlice", "intSlice"}

\* lines 89-114: the value a matched case assigns to v
SwitchValue(fs, f) ==
    CASE f.Type = "int" -> Leaf("int64", <<Int64Of(GetInt(fs, f.Name))>>)
      [] f.Type = "int8" -> Leaf("int64", <<Int64Of(GetInt8(fs, f.Name))>>)
      [] f.Type = "int16" -> Leaf("int64", <<Int64Of(GetInt16(fs, f.Name))>>)
      [] f.Type = "int32" -> Leaf("int64", <<Int64Of(GetInt32(fs, f.Name))>>)
      [] f.Type = "int64" -> Leaf("int64", <<Int64Of(GetInt64(fs, f.Name))>>)
      [] f.Type = "float32" -> Leaf("float32", GetFloat32(fs, f.Name))
      [] f.Type = "float" -> Leaf("float64", GetFloat64(fs, f.Name))
      [] f.Type = "bool" -> Leaf("bool", GetBool(fs, f.Name))
      [] f.Type = "stringSlice" -> Leaf("[]string", GetStringSlice(fs, f.Name))
      [] f.Type = "intSlice" -> Leaf("[]int", GetIntSlice(fs, f.Name))

\* mp[key] = value, with the store logged
Store(acc, f, key, value) ==
    [acc EXCEPT !.mp = (key :> value) @@ acc.mp,
                !.stores = Append(acc.stores,
                                  [flag |-> f.Name, key |-> key, value |-> value])]

\* the default case without the test for the empty key
DefaultCaseKeepsEmpty(pp, f, keyName, acc) ==
    IF pp.valueCallback # "nil"
    THEN LET r == ApplyValueCallback(pp.valueCallback, keyName, ValueString(f))
             logged == [acc EXCEPT !.hooks =
                            Append(acc.hooks,
                                   [flag |-> f.Name, key |-> keyName,
                                    value |-> ValueString(f), ret |-> r.key])]
         IN  Store(logged, f, r.key, r.value)
    ELSE Store(acc, f, keyName, Leaf("string", <<ValueString(f)>>))

\* lines 115-125: the default case
DefaultCase(pp, f, keyName, acc) ==
    IF pp.valueCallback # "nil"
    THEN LET r == ApplyValueCallback(pp.valueCallback, keyName, ValueString(f))
             logged == [acc EXCEPT !.hooks =
                            Append(acc.hooks,
                                   [flag |-> f.Name, key |-> keyName,
                                    value |-> ValueString(f), ret |-> r.key])]
         IN  IF r.key = <<>> THEN logged ELSE Store(logged, f, r.key, r.value)
    ELSE Store(acc, f, keyName, Leaf("string", <<ValueString(f)>>))

\* the closure with the type switch before the inclusion test: the value
\* callback is called for flags that are then left out
VisitFlagHookFirst(pp, fs, f, acc) ==
    LET keyName == KeyName(pp, f)
    IN  IF f.Type \in SwitchTags
        THEN IF Skipped(pp, f, keyName) THEN acc
             ELSE Store(acc, f, keyName, SwitchValue(fs, f))
        ELSE LET r == DefaultCase(pp, f, keyName, acc)
             IN  IF Skipped(pp, f, keyName) THEN [r EXCEPT !.mp = acc.mp,
                                                           !.stores = acc.stores]
                 ELSE r

\* lines 71-129: the closure VisitAll calls for one flag
VisitFlag(pp, fs, f, acc) ==
    LET keyName == KeyName(pp, f)
    IN  IF Skipped(pp, f, keyName) THEN acc
        ELSE IF f.Type \in SwitchTags
             THEN Store(acc, f, keyName, SwitchValue(fs, f))
             ELSE DefaultCase(pp, f, keyName, acc)

\* FlagSet.VisitAll: every flag once, in the order of the registry
RECURSIVE VisitFrom(_, _, _, _)
VisitFrom(pp, fs, i, acc) ==
    IF i > Len(fs) THEN acc
    ELSE VisitFrom(pp, fs, i + 1, VisitFlag(pp, fs, fs[i], acc))

VisitAll(pp, fs) ==
    VisitFrom(pp, fs, 1, [mp |-> <<>>, hooks |-> <<>>, stores |-> <<>>])

\* ------------------------------------------------------------ maps.Unflatten

\* one flat entry put into the tree at its path: a level that is missing, or
\* that holds a value which is no map, is replaced by a new map
RECURSIVE Insert(_, _, _)
Insert(tree, parts, value) ==
    IF Len(parts) = 1
    THEN MapOf((parts[1] :> value) @@ tree.m)
    ELSE LET sub == IF parts[1] \in DOMAIN tree.m /\ tree.m[parts[1]].kind = "map"
                    THEN tree.m[parts[1]]
                    ELSE EmptyMap
         IN  MapOf((parts[1] :> Insert(sub, Tail(parts), value)) @@ tree.m)

\* the orders in which the entries of a Go map are ranged over
Orders(keys) ==
    { o \in [1..Cardinality(keys) -> keys] :
        \A i, j \in 1..Cardinality(keys) : o[i] = o[j] => i = j }

RECURSIVE UnflattenFrom(_, _, _, _, _)
UnflattenFrom(mp, delim, order, i, tree) ==
    IF i > Len(order) THEN tree
    ELSE UnflattenFrom(mp, delim, order, i + 1,
                       Insert(tree, Split(order[i], delim), mp[order[i]]))

Unflatten(mp, delim, order) == UnflattenFrom(mp, delim, order, 1, EmptyMap)

\* ------------------------------------------------------------ operations

NoError == "nil"

NoCall == [op |-> "none", tree |-> NilValue, bytes |-> <<>>, err |-> NoError]

\* a Read that returns the flat accumulator, not nested
ReadFlat ==
    LET acc == VisitAll(p, flagset)
    IN  /\ ret' = [op |-> "Read", tree |-> MapOf(acc.mp), bytes |-> <<>>,
                   err |-> NoError]
        /\ first' = IF first.op = "none" THEN ret' ELSE first
        /\ hookLog' = acc.hooks
        /\ storeLog' = acc.stores
        /\ UNCHANGED <<flagset, p, cbEvents>>

\* a Read that marks the flags it has read as changed
ReadMarks ==
    LET acc == VisitAll(p, flagset)
    IN  \E order \in Orders(DOMAIN acc.mp) :
          /\ ret' = [op |-> "Read", tree |-> Unflatten(acc.mp, p.delim, order),
                     bytes |-> <<>>, err |-> NoError]
          /\ first' = IF first.op = "none" THEN ret' ELSE first
          /\ hookLog' = acc.hooks
          /\ storeLog' = acc.stores
          /\ flagset' = [i \in 1..Len(flagset) |-> [flagset[i] EXCEPT !.Changed = TRUE]]
          /\ UNCHANGED <<p, cbEvents>>

\* Read(): lines 69-131
Read ==
    LET acc == VisitAll(p, flagset)
    IN  \E order \in Orders(DOMAIN acc.mp) :
          LET tree == Unflatten(acc.mp, p.delim, order)
          IN  /\ ret' = [op |-> "Read", tree |-> tree, bytes |-> <<>>,
                         err |-> NoError]
              /\ first' = IF first.op = "none" THEN ret' ELSE first
              /\ hookLog' = acc.hooks
              /\ storeLog' = acc.stores
              /\ UNCHANGED <<flagset, p, cbEvents>>

\* ReadBytes(): lines 134-136
ReadBytes ==
    /\ ret' = [op |-> "ReadBytes", tree |-> NilValue, bytes |-> <<>>,
               err |-> "pflag provider does not support this method"]
    /\ UNCHANGED <<flagset, p, first, hookLog, storeLog, cbEvents>>

\* a Watch that reports to the callback
WatchNotifies(cb) ==
    /\ ret' = [op |-> "Watch", tree |-> NilValue, bytes |-> <<>>, err |-> NoError]
    /\ cbEvents' = 1
    /\ UNCHANGED <<flagset, p, first, hookLog, storeLog>>

\* Watch(cb): lines 139-141
Watch(cb) ==
    /\ ret' = [op |-> "Watch", tree |-> NilValue, bytes |-> <<>>,
               err |-> "posflag provider does not support this method"]
    /\ UNCHANGED <<flagset, p, first, hookLog, storeLog, cbEvents>>

\* ------------------------------------------------------------ initial states

MaxFlags == 2

Delim == S(<<".">>)

\* the names of the registry in the order VisitAll visits them
Names == <<K_a, K_ab, K_b>>

Koanfs == {NoKoanf, Koanf({}), Koanf({K_a, K_b})}

Providers ==
    {Provider(Delim, ko) : ko \in Koanfs}
    \cup {ProviderWithValue(Delim, ko, cb) : ko \in Koanfs, cb \in ValueCallbacks}
    \cup {ProviderWithOptions(Delim, ko, vcb, kcb) :
            ko \in Koanfs, vcb \in ValueCallbacks \cup {"nil"},
            kcb \in KeyNameCallbacks \cup {"nil"}}

\* the (type, value, changed) a flag is defined and parsed with
Settings(tags) ==
    UNION {{[tag |-> tag, value |-> value, changed |-> changed] :
              value \in TypeSamples(tag), changed \in BOOLEAN} : tag \in tags}

\* the settings of the flags of a registry of several flags
FewSettings ==
    {s \in Settings({"int8", "string", "custom"}) :
       s.value \in {<<Bytes(255, 255, 1)>>, <<S(<<"a", "b">>)>>, <<S(<<"1", "s">>)>>}}

\* the registry as a sequence: the chosen names in order
Registry(chosen, setting) ==
    LET idx(k) == CHOOSE i \in chosen : Cardinality({j \in chosen : j <= i}) = k
        flag(i) == Flag(Names[i], setting[i].tag, setting[i].value, setting[i].changed)
    IN  [k \in 1..Cardinality(chosen) |-> flag(idx(k))]

\* registries of up to MaxFlags flags, and registries of one flag of any type
SeveralFlags ==
    UNION {{Registry(chosen, setting) : setting \in [chosen -> FewSettings]}
           : chosen \in {c \in SUBSET (1..Len(Names)) : Cardinality(c) <= MaxFlags}}

OneFlag == {Registry({1}, [i \in {1} |-> s]) : s \in Settings(TypeTags)}

Init ==
    /\ (flagset \in SeveralFlags \/ flagset \in OneFlag)
    /\ p \in Providers
    /\ ret = NoCall
    /\ first = NoCall
    /\ hookLog = <<>>
    /\ storeLog = <<>>
    /\ cbEvents = 0

Callbacks == {"cb"}

Next ==
    \/ Read
    \/ ReadBytes
    \/ \E cb \in Callbacks : Watch(cb)

Spec == Init /\ [][Next]_vars

\* ------------------------------------------------------------ maps.Flatten

\* the tree as flat entries: the keys of nested maps joined by the delimiter
RECURSIVE Flatten(_, _, _)
Flatten(tree, prefix, delim) ==
    UNION { IF tree.m[k].kind = "map"
            THEN Flatten(tree.m[k], prefix \o k \o delim, delim)
            ELSE {[key |-> prefix \o k, value |-> tree.m[k]]}
          : k \in DOMAIN tree.m }

\* ------------------------------------------------------------ vocabulary of the claims

Absent == [kind |-> "absent", v |-> <<>>, m |-> <<>>]

\* the node of a tree at a path of key parts
RECURSIVE NodeAt(_, _)
NodeAt(tree, parts) ==
    IF tree.kind # "map" \/ parts[1] \notin DOMAIN tree.m THEN Absent
    ELSE IF Len(parts) = 1 THEN tree.m[parts[1]]
         ELSE NodeAt(tree.m[parts[1]], Tail(parts))

\* what the last Read returned at a key
At(key) == NodeAt(ret.tree, Split(key, p.delim))

IsPrefix(a, b) == Len(a) <= Len(b) /\ \A i \in 1..Len(a) : a[i] = b[i]

\* two keys that are equal or of which one is a delimiter path prefix of the other
Clash(a, b) ==
    \/ IsPrefix(Split(a, p.delim), Split(b, p.delim))
    \/ IsPrefix(Split(b, p.delim), Split(a, p.delim))

Flags == {flagset[i] : i \in 1..Len(flagset)}

\* the candidate key of a flag: the rename hook's result, else the raw name
CandidateKey(f) ==
    IF p.keyNameCallback = "nil" THEN f.Name
    ELSE ApplyKeyNameCallback(p.keyNameCallback, f)

\* the tags the type switch of Read has a case for
Matched == {"int", "int8", "int16", "int32", "int64", "float32", "float",
            "bool", "stringSlice", "intSlice"}

\* the flag's value goes through the value-transform hook
Hooked(f) == p.valueCallback # "nil" /\ f.Type \notin Matched

HookResult(f) == ApplyValueCallback(p.valueCallback, CandidateKey(f), ValueString(f))

\* the inclusion decision of the specification
Included(f) == f.Changed \/ (p.ko.set /\ ~Exists(p.ko, CandidateKey(f)))

\* the keys a flag may be stored under: the hook's key when the hook handles
\* it and returns one, else the candidate key
OutKeys(f) ==
    IF Hooked(f) THEN {HookResult(f).key} \ {<<>>} ELSE {CandidateKey(f)}

\* no two keys of the registry's flags are in delimiter collision
Separate ==
    \A g, h \in Flags : \A k \in OutKeys(g) : \A l \in OutKeys(h) :
      k # l => ~Clash(k, l)

\* no other flag of the registry is stored under a key that clashes with key,
\* and no keys of the registry collide
Alone(f, key) ==
    /\ \A g \in Flags \ {f} : \A k \in OutKeys(g) : ~Clash(k, key)
    /\ Separate

\* the number a two's complement byte sequence stands for, as sign and magnitude
RECURSIVE Inc(_)
Inc(b) ==
    IF b = <<>> THEN <<>>
    ELSE IF b[1] < 255 THEN <<b[1] + 1>> \o Tail(b) ELSE <<0>> \o Inc(Tail(b))

RECURSIVE Strip(_)
Strip(b) ==
    IF b # <<>> /\ b[Len(b)] = 0 THEN Strip(SubSeq(b, 1, Len(b) - 1)) ELSE b

Negative(b) == b[Len(b)] >= 128

Magnitude(b) ==
    IF Negative(b) THEN Strip(Inc([i \in 1..Len(b) |-> 255 - b[i]])) ELSE Strip(b)

SameNumber(a, b) == Negative(a) = Negative(b) /\ Magnitude(a) = Magnitude(b)

\* the kind the specification gives the value of a flag of each type
SpecKind(tag) ==
    CASE tag \in IntTags -> "int64"
      [] tag = "float32" -> "float32"
      [] tag = "float64" -> "float64"
      [] tag = "bool" -> "bool"
      [] tag = "stringSlice" -> "[]string"
      [] tag = "intSlice" -> "[]int"
      [] OTHER -> "string"

\* the kind Read gives it: a float64 flag has the tag "float64", which no case
\* of the switch matches, and a value of the tag "float" is read as a float64
CodeKind(tag) ==
    CASE tag = "float64" -> "string"
      [] tag = "float" -> "float64"
      [] OTHER -> SpecKind(tag)

\* node holds the value of flag f in the given kind
Holds(node, f, kind) ==
    /\ node.kind = kind
    /\ CASE kind = "int64" ->
              /\ Len(node.v[1]) = 8
              /\ SameNumber(node.v[1], f.Value[1])
         [] kind = "string" -> node.v = <<ValueString(f)>>
         [] f.Type = "float" -> node.v = <<<<0>>>>
         [] OTHER -> node.v = f.Value

LastRead == ret.op = "Read"

\* ------------------------------------------------------------ claims

\* C1, as claimed: after Read, an unchanged flag has an entry under its
\* candidate key exactly when an oracle is configured and Exists(key) is false,
\* and that entry is the default as Read coerces a value of its type.
C1_AsClaimed ==
    LastRead =>
      \A f \in Flags :
        ~f.Changed =>
          /\ At(CandidateKey(f)) # Absent
               <=> (p.ko.set /\ ~Exists(p.ko, CandidateKey(f)))
          /\ At(CandidateKey(f)) # Absent
               => Holds(At(CandidateKey(f)), f, CodeKind(f.Type))

\* C1, amended: the same for every unchanged flag that the value-transform
\* hook does not handle and whose candidate key clashes with the key of no
\* other flag, the entry being the default as the type switch of Read coerces it.
C1_DefaultInclusion ==
    LastRead =>
      \A f \in Flags :
        (~f.Changed /\ ~Hooked(f) /\ Alone(f, CandidateKey(f))) =>
          /\ At(CandidateKey(f)) # Absent
               <=> (p.ko.set /\ ~Exists(p.ko, CandidateKey(f)))
          /\ At(CandidateKey(f)) # Absent
               => Holds(At(CandidateKey(f)), f, CodeKind(f.Type))

C1_Witness ==
    /\ LastRead
    /\ Len(flagset) > 1
    /\ \E f \in Flags :
         /\ ~f.Changed /\ ~Hooked(f) /\ Alone(f, CandidateKey(f))
         /\ p.ko.set /\ ~Exists(p.ko, CandidateKey(f))
         /\ At(CandidateKey(f)).kind = "int64"
    /\ \E f \in Flags :
         /\ ~f.Changed /\ ~Hooked(f) /\ Alone(f, CandidateKey(f))
         /\ p.ko.set /\ Exists(p.ko, CandidateKey(f))
         /\ At(CandidateKey(f)) = Absent

\* C2, as claimed: after Read, every changed flag has an entry in the output,
\* under its candidate key or under the key the value-transform hook gave it.
C2_AsClaimed ==
    LastRead =>
      \A f \in Flags :
        f.Changed =>
          \/ At(CandidateKey(f)) # Absent
          \/ Hooked(f) /\ At(HookResult(f).key) # Absent

\* C2, amended: whatever the oracle says, a changed flag that the hook does
\* not handle has its coerced current value under its candidate key, and one
\* the hook handles has the hook's value under the hook's key unless that key
\* is empty, provided the key clashes with the key of no other flag.
C2_ChangedIncluded ==
    LastRead =>
      \A f \in Flags :
        f.Changed =>
          /\ (~Hooked(f) /\ Alone(f, CandidateKey(f)))
               => Holds(At(CandidateKey(f)), f, CodeKind(f.Type))
          /\ (Hooked(f) /\ HookResult(f).key # <<>> /\ Alone(f, HookResult(f).key))
               => At(HookResult(f).key) = HookResult(f).value

C2_Witness ==
    /\ LastRead
    /\ \E f \in Flags :
         /\ f.Changed /\ ~Hooked(f) /\ Alone(f, CandidateKey(f))
         /\ p.ko.set /\ Exists(p.ko, CandidateKey(f))
         /\ At(CandidateKey(f)) # Absent
    /\ \E f \in Flags :
         /\ f.Changed /\ Hooked(f) /\ HookResult(f).key # <<>>
         /\ At(HookResult(f).key) = HookResult(f).value

\* C3: after Read, a flag for which the value-transform hook was called and
\* returned the empty key has stored nothing, and the output has no entry
\* under its raw name, its candidate key or the empty key unless another flag
\* is stored under a key that clashes with it; this holds for changed flags too.
C3_EmptyKeyDrops ==
    LastRead =>
      \A f \in Flags :
        (Hooked(f) /\ Included(f) /\ HookResult(f).key = <<>>) =>
          /\ \A i \in 1..Len(storeLog) : storeLog[i].flag # f.Name
          /\ \A k \in {f.Name, CandidateKey(f), <<>>} :
               Alone(f, k) => At(k) = Absent

C3_Witness ==
    /\ LastRead
    /\ Len(flagset) > 1
    /\ storeLog # <<>>
    /\ \E f \in Flags :
         /\ f.Changed /\ Hooked(f) /\ HookResult(f).key = <<>>
         /\ Alone(f, f.Name)
         /\ \E i \in 1..Len(hookLog) : hookLog[i].flag = f.Name /\ hookLog[i].ret = <<>>

HookCalls(f) == {i \in 1..Len(hookLog) : hookLog[i].flag = f.Name}

\* C4, as claimed: with a hook configured, Read never calls it for a flag of
\* one of pflag's recognized tags, string and float64 among them, and calls it
\* exactly once for every flag of another tag that it includes.
C4_AsClaimed ==
    (LastRead /\ p.valueCallback # "nil") =>
      \A f \in Flags :
        /\ f.Type \in BuiltinTags => HookCalls(f) = {}
        /\ (f.Type \notin BuiltinTags /\ Included(f)) => Cardinality(HookCalls(f)) = 1

\* C4, amended: with a hook configured, Read calls it exactly once, with the
\* candidate key and the string rendering of the value, for every flag it
\* includes whose tag the type switch has no case for (string and float64
\* among them), and never for an excluded flag or a flag of a tag the switch
\* matches, whose entry is stored under the candidate key.
C4_HookCalls ==
    LastRead =>
      \A f \in Flags :
        /\ Cardinality(HookCalls(f)) = IF Hooked(f) /\ Included(f) THEN 1 ELSE 0
        /\ \A i \in HookCalls(f) :
             hookLog[i].key = CandidateKey(f) /\ hookLog[i].value = ValueString(f)
        /\ (p.valueCallback # "nil" /\ f.Type \in Matched /\ Included(f)
              /\ Alone(f, CandidateKey(f)))
             => Holds(At(CandidateKey(f)), f, CodeKind(f.Type))

C4_Witness ==
    /\ LastRead
    /\ p.valueCallback # "nil"
    /\ \E f \in Flags : f.Type = "string" /\ Cardinality(HookCalls(f)) = 1
    /\ \E f \in Flags : f.Type = "int8" /\ Included(f) /\ At(CandidateKey(f)).kind = "int64"

\* C5, as claimed: after Read, an included float32 flag is a float32 and an
\* included float64 flag is a float64 in the output, holding the current value.
C5_AsClaimed ==
    LastRead =>
      \A f \in Flags :
        (f.Type \in {"float32", "float64"} /\ Included(f) /\ Alone(f, CandidateKey(f))) =>
          Holds(At(CandidateKey(f)), f, SpecKind(f.Type))

\* C6: after Read, an included flag of a signed integer type of any width is
\* an int64 in the output that stands for the same number as its current value.
C6_IntWidening ==
    LastRead =>
      \A f \in Flags :
        (f.Type \in IntTags /\ Included(f) /\ Alone(f, CandidateKey(f))) =>
          /\ At(CandidateKey(f)).kind = "int64"
          /\ Len(At(CandidateKey(f)).v) = 1
          /\ Len(At(CandidateKey(f)).v[1]) = 8
          /\ SameNumber(At(CandidateKey(f)).v[1], f.Value[1])

C6_Witness ==
    /\ LastRead
    /\ \E f \in Flags :
         /\ f.Type = "int8" /\ f.Value = <<<<128>>>> /\ Included(f)
         /\ At(CandidateKey(f)).v = <<<<128, 255, 255, 255, 255, 255, 255, 255>>>>

StoresOf(f) == {i \in 1..Len(storeLog) : storeLog[i].flag = f.Name}

\* C7, as claimed: with a rename hook configured, every entry Read stores for
\* a flag is stored under the key the rename hook returned for that flag.
C7_AsClaimed ==
    (LastRead /\ p.keyNameCallback # "nil") =>
      \A f \in Flags : \A i \in StoresOf(f) : storeLog[i].key = CandidateKey(f)

\* C7, amended: with a rename hook configured, every included flag that the
\* value-transform hook does not handle, changed or default-included, is stored
\* once, under the rename hook's key and with the value of the flag of the raw
\* name, and the output has it there and has nothing under the raw name when no
\* other key clashes; a flag the hook handles passes the rename hook's key to
\* the value-transform hook, whose returned key is the one stored.
C7_RenameKey ==
    (LastRead /\ p.keyNameCallback # "nil") =>
      \A f \in Flags :
        /\ (Included(f) /\ ~Hooked(f)) =>
             /\ Cardinality(StoresOf(f)) = 1
             /\ \A i \in StoresOf(f) :
                  /\ storeLog[i].key = ApplyKeyNameCallback(p.keyNameCallback, f)
                  /\ Holds(storeLog[i].value, f, CodeKind(f.Type))
             /\ Alone(f, CandidateKey(f)) =>
                  Holds(At(ApplyKeyNameCallback(p.keyNameCallback, f)), f,
                        CodeKind(f.Type))
             /\ (Alone(f, f.Name) /\ ~Clash(f.Name, CandidateKey(f))) =>
                  At(f.Name) = Absent
        /\ (Included(f) /\ Hooked(f)) =>
             /\ \A i \in HookCalls(f) :
                  hookLog[i].key = ApplyKeyNameCallback(p.keyNameCallback, f)
             /\ \A i \in StoresOf(f) : storeLog[i].key = HookResult(f).key

C7_Witness ==
    /\ LastRead
    /\ p.keyNameCallback = "RenPrefix"
    /\ \E f \in Flags :
         /\ f.Changed /\ ~Hooked(f) /\ Alone(f, CandidateKey(f))
         /\ At(S(<<"b", ".">>) \o f.Name) # Absent
         /\ At(f.Name) = Absent
    /\ \E f \in Flags :
         /\ ~f.Changed /\ ~Hooked(f) /\ Alone(f, CandidateKey(f))
         /\ At(S(<<"b", ".">>) \o f.Name).kind = "int64"

NotSupported == {"pflag provider does not support this method",
                 "posflag provider does not support this method"}

\* C8: every ReadBytes and every Watch returns a "not supported" error and no
\* bytes, Watch never calls its callback, and neither changes the registry,
\* the configuration or what Read has returned and will return.
C8_NotSupported ==
    [][ ret'.op \in {"ReadBytes", "Watch"} =>
          /\ ret'.err \in NotSupported
          /\ ret'.bytes = <<>>
          /\ ret'.tree = NilValue
          /\ cbEvents' = 0
          /\ UNCHANGED <<flagset, p, first, hookLog, storeLog>> ]_vars

C8_Witness ==
    /\ ret.op = "Watch"
    /\ ret.err \in NotSupported
    /\ first.op = "Read"
    /\ first.tree # EmptyMap

\* the flat entries of the last Read: the last value stored under each key
FlatEntries ==
    {[key |-> storeLog[i].key, value |-> storeLog[i].value] :
       i \in {j \in 1..Len(storeLog) :
                \A k \in (j + 1)..Len(storeLog) : storeLog[k].key # storeLog[j].key}}

FlatKeys == {e.key : e \in FlatEntries}

\* no key is a delimiter path prefix of another
NoCollision == \A a, b \in FlatKeys : a # b => ~Clash(a, b)

\* C9, as claimed: when the flat entries of Read have no delimiter collision,
\* the returned tree holds every entry at the path of its key, and flattening
\* the tree by the delimiter gives back the flat entries.
C9_AsClaimed ==
    (LastRead /\ NoCollision) =>
      /\ Flatten(ret.tree, <<>>, p.delim) = FlatEntries
      /\ \A e \in FlatEntries : At(e.key) = e.value

\* C9, amended: the same when moreover no entry's value is itself a map (a
\* value-transform hook may return one, which flattening takes for a level).
C9_RoundTrip ==
    (LastRead /\ NoCollision /\ \A e \in FlatEntries : e.value.kind # "map") =>
      /\ Flatten(ret.tree, <<>>, p.delim) = FlatEntries
      /\ \A e \in FlatEntries : At(e.key) = e.value

C9_Witness ==
    /\ LastRead
    /\ NoCollision
    /\ Cardinality(FlatKeys) > 1
    /\ \E e \in FlatEntries : Len(Split(e.key, p.delim)) > 2
    /\ \A e \in FlatEntries : e.value.kind # "map"
    /\ Flatten(ret.tree, <<>>, p.delim) = FlatEntries

\* C10, as claimed: no call changes the registry or the configuration, and
\* every Read returns a nil error and a tree equal to the first Read's.
C10_AsClaimed ==
    [][ /\ flagset' = flagset
        /\ p' = p
        /\ ret'.op = "Read" => (ret'.err = NoError /\ ret'.tree = first'.tree) ]_vars

\* C10, amended: no call changes the registry or the configuration; every
\* Read returns a nil error and stores the same flat entries as the Read
\* before it, and its tree equals the first Read's when the flat entries have
\* no delimiter collision (with one, the tree depends on the order in which
\* the entries are nested, which differs from call to call).
C10_Stateless ==
    [][ /\ flagset' = flagset
        /\ p' = p
        /\ ret'.op = "Read" =>
             /\ ret'.err = NoError
             /\ first.op = "Read" => (storeLog' = storeLog /\ hookLog' = hookLog)
             /\ NoCollision' => ret'.tree = first'.tree ]_vars

C10_Witness ==
    /\ LastRead
    /\ first.op = "Read"
    /\ Cardinality(FlatKeys) > 1
    /\ ~NoCollision
    /\ ret.tree # first.tree

====
